---- MODULE Spec2Model ----
(***************************************************************************)
(* Model of the QR loyalty demo (src/app.py): the users/progress tables,   *)
(* the request handlers index, qr, status, scan, redeem and admin_reset,   *)
(* and the cooldown gate can_scan.                                         *)
(*                                                                         *)
(* Spec     : every request runs to completion before the next begins.     *)
(* SpecConc : request threads interleave at the granularity of the         *)
(*            database transactions and clock reads of the handlers.       *)
(***************************************************************************)
EXTENDS Integers, FiniteSets, Sequences, TLC

\* ---------------------------------------------------------------- constants
TARGET_SCANS == 5
MIN_SECONDS_BETWEEN_SCANS == 30

\* SQL NULL / Python None in the last_scan_at column
NULL == -1

\* ------------------------------------------------------------------- bounds
\* the clock (int(time.time())) is observed in 0..MaxClock
MaxClock == 150
\* user ids sent in the ?user= parameter ("demo" is the default)
UserIds == {"demo"}
\* the user ids of SpecUsers, where requests of two users alternate
IsoUsers == {"demo", "alice"}
\* under SpecLive time is unbounded: timestamps are kept relative to an
\* origin that moves on whenever the clock leaves the window 0..LiveWindow
LiveWindow == 60
\* request threads that run concurrently under SpecConc
NThreads == 2
\* stamp-adding scans counted per user by the history variable hist; a scan
\* that would add a stamp beyond this count is not issued
MaxAdded == 5

\* Clock readings are drawn from the seconds around every cooldown boundary:
\* 0, 29, 30, 59, 60, ...  Differences of 0, 1, 29, 30, 31, ... all occur.
Times == {t \in 0..MaxClock : t % MIN_SECONDS_BETWEEN_SCANS \in {0, MIN_SECONDS_BETWEEN_SCANS - 1}}

\* A clock reading taken within a request after the reading t: the same
\* second, or the next observed one
Later(t) == {t2 \in Times : t2 >= t /\ \A t3 \in Times : t3 > t => t3 >= t2}

VARIABLES
    clock,      \* current value of int(time.time())
    users,      \* table users:    user_id -> [created_at]
    progress,   \* table progress: user_id -> [stamps, reward_available, last_scan_at, updated_at]
    last,       \* the last completed request: its inputs, clock readings and response
    hist,       \* history: per user, the stamp-adding scans, the redeems and whether a reset occurred
    thr         \* SpecConc: per request thread, its position in the handler and its locals

vars == <<clock, users, progress, last, hist, thr>>

\* ------------------------------------------------------------ pure helpers

\* The two tables as one value
DB == [users |-> users, progress |-> progress]

\* ensure_user with INSERT OR REPLACE on the users table
ensure_user_recreate(db, user_id, now) ==
    [users |->
        [u \in DOMAIN db.users \cup {user_id} |->
            IF u = user_id THEN [created_at |-> now] ELSE db.users[u]],
     progress |->
        IF user_id \in DOMAIN db.progress THEN db.progress
        ELSE db.progress @@ (user_id :> [stamps |-> 0, reward_available |-> 0,
                                         last_scan_at |-> NULL, updated_at |-> now])]

\* ensure_user with INSERT OR REPLACE on the progress table
ensure_user_replace(db, user_id, now) ==
    [users |->
        IF user_id \in DOMAIN db.users THEN db.users
        ELSE db.users @@ (user_id :> [created_at |-> now]),
     progress |->
        [u \in DOMAIN db.progress \cup {user_id} |->
            IF u = user_id
            THEN [stamps |-> 0, reward_available |-> 0,
                  last_scan_at |-> NULL, updated_at |-> now]
            ELSE db.progress[u]]]

\* ensure_user: INSERT OR IGNORE into users and into progress, then commit
ensure_user(db, user_id, now) ==
    [users |->
        IF user_id \in DOMAIN db.users THEN db.users
        ELSE db.users @@ (user_id :> [created_at |-> now]),
     progress |->
        IF user_id \in DOMAIN db.progress THEN db.progress
        ELSE db.progress @@ (user_id :> [stamps |-> 0, reward_available |-> 0,
                                         last_scan_at |-> NULL, updated_at |-> now])]

\* dataclass Status built from a progress row (bool() of the integer column)
Status(user_id, row) ==
    [user_id |-> user_id,
     stamps |-> row.stamps,
     reward_available |-> (row.reward_available # 0),
     last_scan_at |-> IF row.last_scan_at # NULL THEN row.last_scan_at ELSE NULL]

\* get_status: ensure_user, then SELECT the row
get_status(db, user_id, now) ==
    LET db1 == ensure_user(db, user_id, now)
    IN  [db |-> db1, st |-> Status(user_id, db1.progress[user_id])]

\* can_scan with the operands of the subtraction exchanged
can_scan_reversed(status, t) ==
    IF status.last_scan_at = NULL THEN [ok |-> TRUE, wait |-> 0]
    ELSE LET elapsed == status.last_scan_at - t
         IN  IF elapsed >= MIN_SECONDS_BETWEEN_SCANS
             THEN [ok |-> TRUE, wait |-> 0]
             ELSE [ok |-> FALSE, wait |-> MIN_SECONDS_BETWEEN_SCANS - elapsed]

\* can_scan admitting one second early
can_scan_early(status, t) ==
    IF status.last_scan_at = NULL THEN [ok |-> TRUE, wait |-> 0]
    ELSE LET elapsed == t - status.last_scan_at
         IN  IF elapsed >= MIN_SECONDS_BETWEEN_SCANS - 1
             THEN [ok |-> TRUE, wait |-> 0]
             ELSE [ok |-> FALSE, wait |-> MIN_SECONDS_BETWEEN_SCANS - elapsed]

\* can_scan with a strict comparison
can_scan_strict(status, t) ==
    IF status.last_scan_at = NULL THEN [ok |-> TRUE, wait |-> 0]
    ELSE LET elapsed == t - status.last_scan_at
         IN  IF elapsed > MIN_SECONDS_BETWEEN_SCANS
             THEN [ok |-> TRUE, wait |-> 0]
             ELSE [ok |-> FALSE, wait |-> MIN_SECONDS_BETWEEN_SCANS - elapsed]

\* can_scan: the cooldown gate, evaluated at clock reading t
can_scan(status, t) ==
    IF status.last_scan_at = NULL THEN [ok |-> TRUE, wait |-> 0]
    ELSE LET elapsed == t - status.last_scan_at
         IN  IF elapsed >= MIN_SECONDS_BETWEEN_SCANS
             THEN [ok |-> TRUE, wait |-> 0]
             ELSE [ok |-> FALSE, wait |-> MIN_SECONDS_BETWEEN_SCANS - elapsed]

\* scan_touch that leaves last_scan_at alone
scan_touch_no_cooldown(row, now) ==
    [row EXCEPT !.updated_at = now]

\* UPDATE progress SET last_scan_at=?, updated_at=?   (reward already available)
scan_touch(row, now) ==
    [row EXCEPT !.last_scan_at = now, !.updated_at = now]

\* scan_update that adds two stamps
scan_update_double(row, st, now) ==
    LET new_stamps == st.stamps + 2
        reward == IF new_stamps >= TARGET_SCANS THEN 1 ELSE 0
    IN  [row EXCEPT !.stamps = IF reward = 0 THEN new_stamps ELSE TARGET_SCANS,
                    !.reward_available = reward,
                    !.last_scan_at = now,
                    !.updated_at = now]

\* scan_update with the clamp condition inverted
scan_update_inverted(row, st, now) ==
    LET new_stamps == st.stamps + 1
        reward == IF new_stamps >= TARGET_SCANS THEN 1 ELSE 0
    IN  [row EXCEPT !.stamps = IF reward # 0 THEN new_stamps ELSE TARGET_SCANS,
                    !.reward_available = reward,
                    !.last_scan_at = now,
                    !.updated_at = now]

\* scan_update with a strict threshold comparison
scan_update_late(row, st, now) ==
    LET new_stamps == st.stamps + 1
        reward == IF new_stamps > TARGET_SCANS THEN 1 ELSE 0
    IN  [row EXCEPT !.stamps = IF reward = 0 THEN new_stamps ELSE TARGET_SCANS,
                    !.reward_available = reward,
                    !.last_scan_at = now,
                    !.updated_at = now]

\* UPDATE progress SET stamps=?, reward_available=?, last_scan_at=?, updated_at=?
\* computed from the Status st read earlier by the handler
scan_update(row, st, now) ==
    LET new_stamps == st.stamps + 1
        reward == IF new_stamps >= TARGET_SCANS THEN 1 ELSE 0
    IN  [row EXCEPT !.stamps = IF reward = 0 THEN new_stamps ELSE TARGET_SCANS,
                    !.reward_available = reward,
                    !.last_scan_at = now,
                    !.updated_at = now]

\* redeem_update that clears the flag and keeps the stamps
redeem_update_flag_only(row, now) ==
    [row EXCEPT !.reward_available = 0, !.updated_at = now]

\* redeem_update that also clears last_scan_at
redeem_update_clears_scan(row, now) ==
    [row EXCEPT !.stamps = 0, !.reward_available = 0,
                !.last_scan_at = NULL, !.updated_at = now]

\* UPDATE progress SET stamps=0, reward_available=0, updated_at=?
redeem_update(row, now) ==
    [row EXCEPT !.stamps = 0, !.reward_available = 0, !.updated_at = now]

\* reset_update that keeps last_scan_at
reset_update_keeps_scan(row, now) ==
    [row EXCEPT !.stamps = 0, !.reward_available = 0, !.updated_at = now]

\* UPDATE progress SET stamps=0, reward_available=0, last_scan_at=NULL, updated_at=?
reset_update(row, now) ==
    [row EXCEPT !.stamps = 0, !.reward_available = 0,
                !.last_scan_at = NULL, !.updated_at = now]

\* An UPDATE without its WHERE clause
sql_update_all(db, user_id, newrow) ==
    [db EXCEPT !.progress = [u \in DOMAIN db.progress |-> newrow]]

\* An UPDATE ... WHERE user_id=? touches the row of user_id only, if present
sql_update(db, user_id, newrow) ==
    IF user_id \in DOMAIN db.progress
    THEN [db EXCEPT !.progress[user_id] = newrow]
    ELSE db

\* ------------------------------------------------------- request handlers
\* Each handler is a function of the database and of the clock readings it
\* takes (t0: first ensure_user, t1: can_scan, t2: now of the UPDATE); its
\* value is the database it leaves and the response it renders.

NoStatus == [user_id |-> "", stamps |-> 0, reward_available |-> FALSE, last_scan_at |-> NULL]

Response(op, user_id, ok, msg, wait, remaining, status) ==
    [op |-> op, user_id |-> user_id, ok |-> ok, msg |-> msg, wait |-> wait,
     remaining |-> remaining, status |-> status]

Max(a, b) == IF a >= b THEN a ELSE b

\* GET /
index(db, user_id, t0) ==
    LET g == get_status(db, user_id, t0)
    IN  [db |-> g.db, resp |-> Response("index", user_id, TRUE, "page", 0, 0, g.st)]

\* GET /qr
qr(db, user_id, t0) ==
    [db |-> ensure_user(db, user_id, t0),
     resp |-> Response("qr", user_id, TRUE, "png", 0, 0, NoStatus)]

\* GET /status
status(db, user_id, t0) ==
    LET g == get_status(db, user_id, t0)
        remaining == Max(0, TARGET_SCANS - g.st.stamps)
    IN  [db |-> g.db, resp |-> Response("status", user_id, TRUE, "page", 0, remaining, g.st)]

\* scan that renders its message from st, the status read before the UPDATE
scan_stale_message(db, user_id, t0, t1, t2) ==
    LET g  == get_status(db, user_id, t0)
        st == g.st
        cs == can_scan(st, t1)
    IN  IF ~cs.ok
        THEN [db |-> g.db,
              resp |-> Response("scan", user_id, FALSE, "too_soon", cs.wait, 0, st)]
        ELSE IF st.reward_available
        THEN LET db1 == sql_update(g.db, user_id, scan_touch(g.db.progress[user_id], t2))
                 g2  == get_status(db1, user_id, t2)
             IN  [db |-> g2.db,
                  resp |-> Response("scan", user_id, TRUE, "already_reward", 0, 0, g2.st)]
        ELSE LET db1 == sql_update(g.db, user_id, scan_update(g.db.progress[user_id], st, t2))
                 g2  == get_status(db1, user_id, t2)
             IN  [db |-> g2.db,
                  resp |-> IF g2.st.reward_available
                           THEN Response("scan", user_id, TRUE, "unlocked", 0, 0, g2.st)
                           ELSE Response("scan", user_id, TRUE, "stamp_recorded", 0,
                                         TARGET_SCANS - st.stamps, g2.st)]

\* GET /scan
scan(db, user_id, t0, t1, t2) ==
    LET g  == get_status(db, user_id, t0)
        st == g.st
        cs == can_scan(st, t1)
    IN  IF ~cs.ok
        THEN [db |-> g.db,
              resp |-> Response("scan", user_id, FALSE, "too_soon", cs.wait, 0, st)]
        ELSE IF st.reward_available
        THEN LET db1 == sql_update(g.db, user_id, scan_touch(g.db.progress[user_id], t2))
                 g2  == get_status(db1, user_id, t2)
             IN  [db |-> g2.db,
                  resp |-> Response("scan", user_id, TRUE, "already_reward", 0, 0, g2.st)]
        ELSE LET db1 == sql_update(g.db, user_id, scan_update(g.db.progress[user_id], st, t2))
                 g2  == get_status(db1, user_id, t2)
             IN  [db |-> g2.db,
                  resp |-> IF g2.st.reward_available
                           THEN Response("scan", user_id, TRUE, "unlocked", 0, 0, g2.st)
                           ELSE Response("scan", user_id, TRUE, "stamp_recorded", 0,
                                         TARGET_SCANS - g2.st.stamps, g2.st)]

\* redeem without the reward_available test
redeem_unguarded(db, user_id, t0, t2) ==
    LET g   == get_status(db, user_id, t0)
        db1 == sql_update(g.db, user_id, redeem_update(g.db.progress[user_id], t2))
        g2  == get_status(db1, user_id, t2)
    IN  [db |-> g2.db,
         resp |-> Response("redeem", user_id, TRUE, "redeemed", 0, 0, g2.st)]

\* GET /redeem
redeem(db, user_id, t0, t2) ==
    LET g  == get_status(db, user_id, t0)
        st == g.st
    IN  IF ~st.reward_available
        THEN [db |-> g.db,
              resp |-> Response("redeem", user_id, FALSE, "nothing_to_redeem", 0, 0, st)]
        ELSE LET db1 == sql_update(g.db, user_id, redeem_update(g.db.progress[user_id], t2))
                 g2  == get_status(db1, user_id, t2)
             IN  [db |-> g2.db,
                  resp |-> Response("redeem", user_id, TRUE, "redeemed", 0, 0, g2.st)]

\* GET /admin/reset
admin_reset(db, user_id, t0, t2) ==
    LET db0 == ensure_user(db, user_id, t0)
        db1 == sql_update(db0, user_id, reset_update(db0.progress[user_id], t2))
    IN  [db |-> db1, resp |-> Response("reset", user_id, TRUE, "redirect", 0, 0, NoStatus)]

\* ------------------------------------------------------------------ state

NoRow == [exists |-> FALSE, stamps |-> 0, reward_available |-> 0,
          last_scan_at |-> NULL, updated_at |-> 0]

\* The progress row of user_id as a request finds it (history only)
Before(user_id) ==
    IF user_id \in DOMAIN progress
    THEN [exists |-> TRUE,
          stamps |-> progress[user_id].stamps,
          reward_available |-> progress[user_id].reward_available,
          last_scan_at |-> progress[user_id].last_scan_at,
          updated_at |-> progress[user_id].updated_at]
    ELSE NoRow

NoRequest == [op |-> "none", user_id |-> "", t0 |-> 0, t1 |-> 0, t2 |-> 0,
              before |-> NoRow,
              resp |-> Response("none", "", FALSE, "", 0, 0, NoStatus)]

NoHist == [added |-> 0, redeemed |-> 0, wasReset |-> FALSE]

\* A scan response that reports an added stamp
StampAdding(resp) ==
    resp.op = "scan" /\ resp.msg \in {"unlocked", "stamp_recorded"}

\* The history after a request of user_id answered with resp
Recorded(h, user_id, resp) ==
    [h EXCEPT ![user_id] =
        [added |-> IF StampAdding(resp) THEN @.added + 1 ELSE @.added,
         redeemed |-> IF resp.op = "redeem" /\ resp.msg = "redeemed"
                      THEN @.redeemed + 1 ELSE @.redeemed,
         wasReset |-> @.wasReset \/ resp.op = "reset"]]

\* A request thread: pc is the next step of its handler; st, cs and now are
\* the handler's local variables of those names, resp the rendered response
Threads == 1..NThreads

IdleThread == [pc |-> "idle", op |-> "none", user_id |-> "", st |-> NoStatus,
               now |-> 0, resp |-> Response("none", "", FALSE, "", 0, 0, NoStatus)]

\* init_db on an empty database file: both tables exist and are empty
Init ==
    /\ clock = 0
    /\ users = <<>>
    /\ progress = <<>>
    /\ last = NoRequest
    /\ hist = [u \in IsoUsers |-> NoHist]
    /\ thr = [i \in Threads |-> IdleThread]

\* time.time() moves on between and during requests
Tick ==
    /\ \E t \in Times : t > clock /\ clock' = t
    /\ UNCHANGED <<users, progress, last, hist, thr>>

\* A request that arrives at the current clock and completes with outcome r,
\* having taken the clock readings t0 <= t1 <= t2 (the clock may move on
\* between two readings of one request)
Complete(op, user_id, t0, t1, t2, r) ==
    /\ users' = r.db.users
    /\ progress' = r.db.progress
    /\ clock' = t2
    /\ last' = [op |-> op, user_id |-> user_id, t0 |-> t0, t1 |-> t1, t2 |-> t2,
                before |-> Before(user_id), resp |-> r.resp]
    /\ hist' = Recorded(hist, user_id, r.resp)
    /\ UNCHANGED thr

Index(u) ==
    Complete("index", u, clock, clock, clock, index(DB, u, clock))

Qr(u) ==
    Complete("qr", u, clock, clock, clock, qr(DB, u, clock))

StatusPage(u) ==
    Complete("status", u, clock, clock, clock, status(DB, u, clock))

Scan(u) ==
    /\ \E t1 \in Later(clock) : \E t2 \in Later(t1) :
        Complete("scan", u, clock, t1, t2, scan(DB, u, clock, t1, t2))
    /\ hist'[u].added <= MaxAdded

Redeem(u) ==
    \E t2 \in Later(clock) :
        Complete("redeem", u, clock, clock, t2, redeem(DB, u, clock, t2))

Reset(u) ==
    \E t2 \in Later(clock) :
        Complete("reset", u, clock, clock, t2, admin_reset(DB, u, clock, t2))

Next ==
    \/ Tick
    \/ \E u \in UserIds : Index(u)
    \/ \E u \in UserIds : Qr(u)
    \/ \E u \in UserIds : StatusPage(u)
    \/ \E u \in UserIds : Scan(u)
    \/ \E u \in UserIds : Redeem(u)
    \/ \E u \in UserIds : Reset(u)

Spec == Init /\ [][Next]_vars

TypeOK ==
    /\ clock \in Times
    /\ DOMAIN users \subseteq UserIds
    /\ DOMAIN progress \subseteq UserIds
    /\ DOMAIN users = DOMAIN progress

\* ------------------------------------------------- interleaved requests
\* Under SpecConc the handlers run in request threads, each on its own
\* connection.  A step is one committed transaction (ensure_user, the UPDATE),
\* one SELECT, or one clock reading; the steps of different threads interleave.

ConcUser == "demo"
ConcOps == {"status", "scan", "redeem", "reset"}

\* The database after k accepted scans of ConcUser, one every
\* MIN_SECONDS_BETWEEN_SCANS seconds, each run to completion
RECURSIVE AfterScans(_)
AfterScans(k) ==
    IF k = 0 THEN [users |-> <<>>, progress |-> <<>>]
    ELSE LET t == (k - 1) * MIN_SECONDS_BETWEEN_SCANS
         IN  scan(AfterScans(k - 1), ConcUser, t, t, t).db

\* The threads start on a database that k sequential scans have produced
InitConc ==
    \E k \in 0..TARGET_SCANS :
        /\ clock = IF k = 0 THEN 0 ELSE (k - 1) * MIN_SECONDS_BETWEEN_SCANS
        /\ users = AfterScans(k).users
        /\ progress = AfterScans(k).progress
        /\ last = NoRequest
        /\ hist = [u \in IsoUsers |->
                      IF u = ConcUser THEN [added |-> k, redeemed |-> 0, wasReset |-> FALSE]
                      ELSE NoHist]
        /\ thr = [i \in Threads |-> IdleThread]

\* The thread leaves its handler with the response resp
Finish(i, resp) ==
    /\ thr' = [thr EXCEPT ![i].pc = "done", ![i].resp = resp]
    /\ hist' = Recorded(hist, thr[i].user_id, resp)

\* A request arrives and is dispatched to thread i
T_Start(i) ==
    /\ thr[i].pc = "idle"
    /\ \E op \in ConcOps :
          thr' = [thr EXCEPT ![i].pc = "ensure", ![i].op = op, ![i].user_id = ConcUser]
    /\ UNCHANGED <<clock, users, progress, last, hist>>

\* ensure_user at the head of get_status or of admin_reset
T_Ensure(i) ==
    /\ thr[i].pc = "ensure"
    /\ LET db1 == ensure_user(DB, thr[i].user_id, clock)
       IN  /\ users' = db1.users
           /\ progress' = db1.progress
    /\ thr' = [thr EXCEPT ![i].pc = IF thr[i].op = "reset" THEN "now" ELSE "select"]
    /\ UNCHANGED <<clock, last, hist>>

\* the SELECT of get_status, and the handler's test of what it read
T_Select(i) ==
    /\ thr[i].pc = "select"
    /\ LET u  == thr[i].user_id
           st == Status(u, progress[u])
       IN  CASE thr[i].op = "status" ->
                  Finish(i, Response("status", u, TRUE, "page", 0,
                                     Max(0, TARGET_SCANS - st.stamps), st))
             [] thr[i].op = "redeem" /\ ~st.reward_available ->
                  Finish(i, Response("redeem", u, FALSE, "nothing_to_redeem", 0, 0, st))
             [] thr[i].op = "redeem" /\ st.reward_available ->
                  /\ thr' = [thr EXCEPT ![i].pc = "now", ![i].st = st]
                  /\ UNCHANGED hist
             [] thr[i].op = "scan" ->
                  /\ thr' = [thr EXCEPT ![i].pc = "gate", ![i].st = st]
                  /\ UNCHANGED hist
    /\ UNCHANGED <<clock, users, progress, last>>

\* can_scan(st) and the early return of scan
T_Gate(i) ==
    /\ thr[i].pc = "gate"
    /\ LET cs == can_scan(thr[i].st, clock)
       IN  IF ~cs.ok
           THEN Finish(i, Response("scan", thr[i].user_id, FALSE, "too_soon",
                                   cs.wait, 0, thr[i].st))
           ELSE /\ thr' = [thr EXCEPT ![i].pc = "now"]
                /\ UNCHANGED hist
    /\ UNCHANGED <<clock, users, progress, last>>

\* now = int(time.time())
T_Now(i) ==
    /\ thr[i].pc = "now"
    /\ thr' = [thr EXCEPT ![i].pc = "write", ![i].now = clock]
    /\ UNCHANGED <<clock, users, progress, last, hist>>

\* the UPDATE of the handler and its commit, computed from the locals
T_Write(i) ==
    /\ thr[i].pc = "write"
    /\ LET u   == thr[i].user_id
           row == progress[u]
           new == CASE thr[i].op = "scan" /\ thr[i].st.reward_available ->
                          scan_touch(row, thr[i].now)
                    [] thr[i].op = "scan" /\ ~thr[i].st.reward_available ->
                          scan_update(row, thr[i].st, thr[i].now)
                    [] thr[i].op = "redeem" -> redeem_update(row, thr[i].now)
                    [] thr[i].op = "reset" -> reset_update(row, thr[i].now)
           db1 == sql_update(DB, u, new)
       IN  /\ users' = db1.users
           /\ progress' = db1.progress
           /\ IF thr[i].op = "reset"
              THEN Finish(i, Response("reset", u, TRUE, "redirect", 0, 0, NoStatus))
              ELSE /\ thr' = [thr EXCEPT ![i].pc = "ensure2"]
                   /\ UNCHANGED hist
    /\ UNCHANGED <<clock, last>>

\* ensure_user of the get_status that follows the UPDATE
T_Ensure2(i) ==
    /\ thr[i].pc = "ensure2"
    /\ LET db1 == ensure_user(DB, thr[i].user_id, clock)
       IN  /\ users' = db1.users
           /\ progress' = db1.progress
    /\ thr' = [thr EXCEPT ![i].pc = "select2"]
    /\ UNCHANGED <<clock, last, hist>>

\* the SELECT of that get_status (st2) and the response rendered from it
T_Select2(i) ==
    /\ thr[i].pc = "select2"
    /\ LET u   == thr[i].user_id
           st2 == Status(u, progress[u])
       IN  CASE thr[i].op = "redeem" ->
                  Finish(i, Response("redeem", u, TRUE, "redeemed", 0, 0, st2))
             [] thr[i].op = "scan" /\ thr[i].st.reward_available ->
                  Finish(i, Response("scan", u, TRUE, "already_reward", 0, 0, st2))
             [] thr[i].op = "scan" /\ ~thr[i].st.reward_available ->
                  IF st2.reward_available
                  THEN Finish(i, Response("scan", u, TRUE, "unlocked", 0, 0, st2))
                  ELSE Finish(i, Response("scan", u, TRUE, "stamp_recorded", 0,
                                          TARGET_SCANS - st2.stamps, st2))
    /\ UNCHANGED <<clock, users, progress, last>>

NextConc ==
    \/ Tick
    \/ \E i \in Threads : T_Start(i)
    \/ \E i \in Threads : T_Ensure(i)
    \/ \E i \in Threads : T_Select(i)
    \/ \E i \in Threads : T_Gate(i)
    \/ \E i \in Threads : T_Now(i)
    \/ \E i \in Threads : T_Write(i)
    \/ \E i \in Threads : T_Ensure2(i)
    \/ \E i \in Threads : T_Select2(i)

SpecConc == InitConc /\ [][NextConc]_vars

\* ------------------------------------------------------------ two users
\* Under SpecUsers requests of the users in IsoUsers alternate, each run to
\* completion.  "demo" has made StartScans accepted scans, one every
\* MIN_SECONDS_BETWEEN_SCANS seconds; "alice" has never been referenced.

StartScans == TARGET_SCANS - 1

InitUsers ==
    /\ clock = (StartScans - 1) * MIN_SECONDS_BETWEEN_SCANS
    /\ users = AfterScans(StartScans).users
    /\ progress = AfterScans(StartScans).progress
    /\ last = NoRequest
    /\ hist = [u \in IsoUsers |->
                  IF u = ConcUser
                  THEN [added |-> StartScans, redeemed |-> 0, wasReset |-> FALSE]
                  ELSE NoHist]
    /\ thr = [i \in Threads |-> IdleThread]

NextUsers ==
    \/ Tick
    \/ \E u \in IsoUsers : Index(u)
    \/ \E u \in IsoUsers : Qr(u)
    \/ \E u \in IsoUsers : StatusPage(u)
    \/ \E u \in IsoUsers : Scan(u)
    \/ \E u \in IsoUsers : Redeem(u)
    \/ \E u \in IsoUsers : Reset(u)

SpecUsers == InitUsers /\ [][NextUsers]_vars

\* ------------------------------------------------------- unbounded time
\* Under SpecLive the clock never stops.  Requests run to completion.  The
\* timestamps are measured from a moving origin: when the clock is at the top
\* of the window, the next tick moves the origin on by
\* MIN_SECONDS_BETWEEN_SCANS.  A timestamp that falls before the origin is
\* kept at 0; it is then at least MIN_SECONDS_BETWEEN_SCANS old, and can_scan
\* answers for it what it answers for the true value.

LiveTimes == {t \in Times : t <= LiveWindow}
LiveTop == CHOOSE t \in LiveTimes : \A t2 \in LiveTimes : t2 <= t

Shift(t) == IF t = NULL THEN NULL ELSE Max(0, t - MIN_SECONDS_BETWEEN_SCANS)

\* The clock reading that follows t
NextReading(t) ==
    IF t % MIN_SECONDS_BETWEEN_SCANS = 0 THEN t + MIN_SECONDS_BETWEEN_SCANS - 1 ELSE t + 1

L_Tick ==
    /\ IF clock < LiveTop
       THEN /\ \E t \in LiveTimes : t > clock /\ clock' = t
            /\ UNCHANGED <<users, progress>>
       ELSE /\ clock' = Shift(NextReading(clock))
            /\ users' = [u \in DOMAIN users |-> [created_at |-> Shift(users[u].created_at)]]
            /\ progress' = [u \in DOMAIN progress |->
                              [progress[u] EXCEPT !.last_scan_at = Shift(@),
                                                  !.updated_at = Shift(@)]]
    /\ UNCHANGED <<last, hist, thr>>

\* History under SpecLive: added counts the stamp-adding scans since the
\* last redeem or reset; redeemed and wasReset tell whether one has occurred
RecordedCycle(h, user_id, resp) ==
    [h EXCEPT ![user_id] =
        [added |-> IF StampAdding(resp) THEN @.added + 1
                   ELSE IF resp.op = "reset" \/ resp.msg = "redeemed" THEN 0
                   ELSE @.added,
         redeemed |-> IF resp.msg = "redeemed" THEN 1 ELSE @.redeemed,
         wasReset |-> @.wasReset \/ resp.op = "reset"]]

CompleteLive(user_id, t2, r) ==
    /\ users' = r.db.users
    /\ progress' = r.db.progress
    /\ clock' = t2
    /\ hist' = RecordedCycle(hist, user_id, r.resp)
    /\ UNCHANGED <<last, thr>>

L_Status(u) ==
    CompleteLive(u, clock, status(DB, u, clock))

L_Scan(u) ==
    \E t1 \in Later(clock) \cap LiveTimes : \E t2 \in Later(t1) \cap LiveTimes :
        CompleteLive(u, t2, scan(DB, u, clock, t1, t2))

L_Redeem(u) ==
    \E t2 \in Later(clock) \cap LiveTimes :
        CompleteLive(u, t2, redeem(DB, u, clock, t2))

L_Reset(u) ==
    \E t2 \in Later(clock) \cap LiveTimes :
        CompleteLive(u, t2, admin_reset(DB, u, clock, t2))

NextLive ==
    \/ L_Tick
    \/ \E u \in UserIds : L_Status(u)
    \/ \E u \in UserIds : L_Scan(u)
    \/ \E u \in UserIds : L_Redeem(u)
    \/ \E u \in UserIds : L_Reset(u)

\* time keeps advancing, and a scan that would be accepted is eventually made
FairLive ==
    /\ WF_vars(L_Tick)
    /\ \A u \in UserIds : WF_vars(L_Scan(u))

SpecLive == Init /\ [][NextLive]_vars /\ FairLive

\* ----------------------------------------------------------------- claims

\* What a request for user u finds: the row, or the zeroed record that
\* ensure_user is about to create
\* This step is a completed request op of user u.  Every request records
\* itself in last, Tick leaves last alone, and a request that leaves last
\* as it was has changed nothing at all.
Did(op, u) == last' # last /\ last'.op = op /\ last'.user_id = u

PreStamps(u) == Before(u).stamps
PreReward(u) == Before(u).reward_available # 0
PreLastScan(u) == Before(u).last_scan_at

\* C1: for every user, in every reachable state, 0 <= stamps <= TARGET_SCANS.
C1_StampsInRange ==
    \A u \in DOMAIN progress :
        /\ progress[u].stamps >= 0
        /\ progress[u].stamps <= TARGET_SCANS

C1_Witness ==
    /\ last.op = "scan" /\ last.resp.ok
    /\ last.before.stamps = TARGET_SCANS
    /\ progress[last.user_id].stamps = TARGET_SCANS

\* C2: after every operation, rewardAvailable is true iff stamps = TARGET_SCANS,
\* in the stored row and in the status the operation returns.
C2_RewardIffTarget ==
    /\ \A u \in DOMAIN progress :
          (progress[u].reward_available # 0) <=> (progress[u].stamps = TARGET_SCANS)
    /\ last.resp.status # NoStatus =>
          (last.resp.status.reward_available <=> last.resp.status.stamps = TARGET_SCANS)

C2_Witness ==
    /\ last.op = "scan" /\ last.resp.msg = "unlocked"
    /\ progress[last.user_id].reward_available = 1
    /\ progress[last.user_id].stamps = TARGET_SCANS

\* C3: a scan evaluated when lastScanAt is present and
\* elapsed = now - lastScanAt < MIN_SECONDS_BETWEEN_SCANS is rejected, mutates
\* nothing (stamps, rewardAvailable, lastScanAt, updatedAt) and returns
\* waitSeconds = MIN_SECONDS_BETWEEN_SCANS - elapsed > 0.
C3_RejectedScan ==
    [][\A u \in UserIds :
         (/\ Did("scan", u)
          /\ PreLastScan(u) # NULL
          /\ last'.t1 - PreLastScan(u) < MIN_SECONDS_BETWEEN_SCANS)
         => /\ ~last'.resp.ok
            /\ last'.resp.msg = "too_soon"
            /\ progress' = progress
            /\ users' = users
            /\ last'.resp.status = Status(u, progress[u])
            /\ last'.resp.wait = MIN_SECONDS_BETWEEN_SCANS - (last'.t1 - PreLastScan(u))
            /\ last'.resp.wait > 0]_vars

C3_Witness ==
    /\ last.op = "scan" /\ ~last.resp.ok
    /\ last.before.last_scan_at # NULL
    /\ last.t1 - last.before.last_scan_at = MIN_SECONDS_BETWEEN_SCANS - 1
    /\ last.resp.wait = 1
    /\ progress[last.user_id].last_scan_at = last.before.last_scan_at

\* C4: the gate admits a scan exactly when lastScanAt is absent or
\* now - lastScanAt >= MIN_SECONDS_BETWEEN_SCANS; the first scan of a user and
\* the first scan after a reset are accepted.
C4_GateExact ==
    [][\A u \in UserIds :
         Did("scan", u) =>
            /\ last'.resp.ok <=>
                  \/ PreLastScan(u) = NULL
                  \/ last'.t1 - PreLastScan(u) >= MIN_SECONDS_BETWEEN_SCANS
            /\ u \notin DOMAIN progress => last'.resp.ok
            /\ (last.op = "reset" /\ last.user_id = u) => last'.resp.ok]_vars

C4_Witness ==
    /\ last.op = "scan" /\ last.resp.ok
    /\ last.before.last_scan_at # NULL
    /\ last.t1 - last.before.last_scan_at = MIN_SECONDS_BETWEEN_SCANS

\* C5: an accepted scan on a user whose rewardAvailable is false adds exactly
\* one stamp, sets rewardAvailable exactly when the new value is TARGET_SCANS,
\* and sets lastScanAt and updatedAt to the current time; from a fresh user,
\* after k <= 5 accepted scans stamps = k and rewardAvailable iff k = 5.
C5_Step ==
    \A u \in UserIds :
        (Did("scan", u) /\ last'.resp.ok /\ ~PreReward(u))
        => /\ progress'[u].stamps = PreStamps(u) + 1
           /\ (progress'[u].reward_available = 1) <=> (PreStamps(u) + 1 = TARGET_SCANS)
           /\ progress'[u].reward_available \in {0, 1}
           /\ progress'[u].last_scan_at = last'.t2
           /\ progress'[u].updated_at = last'.t2
           /\ last'.t2 = clock'

C5_Fresh ==
    \A u \in UserIds :
        (/\ u \in DOMAIN progress'
         /\ ~hist'[u].wasReset /\ hist'[u].redeemed = 0
         /\ hist'[u].added <= TARGET_SCANS)
        => /\ progress'[u].stamps = hist'[u].added
           /\ (progress'[u].reward_available # 0) <=> (hist'[u].added = TARGET_SCANS)

C5_AcceptedScanAddsOne ==
    [][C5_Step /\ C5_Fresh]_vars

C5_Witness ==
    /\ last.op = "scan" /\ last.resp.ok
    /\ last.before.stamps = TARGET_SCANS - 2
    /\ progress[last.user_id].stamps = TARGET_SCANS - 1
    /\ progress[last.user_id].reward_available = 0
    /\ hist[last.user_id] = [added |-> TARGET_SCANS - 1, redeemed |-> 0, wasReset |-> FALSE]

\* C6: a scan that passes the gate while rewardAvailable is already true
\* changes only lastScanAt and updatedAt (both to the current time) and
\* answers 'already has reward'; no scan leaves REWARD_READY.
C6_ScanAtReward ==
    [][\A u \in UserIds :
         (Did("scan", u) /\ PreReward(u))
         => /\ progress'[u].reward_available = 1
            /\ progress'[u].stamps = TARGET_SCANS
            /\ last'.resp.ok =>
                 /\ progress' = [progress EXCEPT ![u].last_scan_at = last'.t2,
                                                 ![u].updated_at = last'.t2]
                 /\ last'.t2 = clock'
                 /\ users' = users
                 /\ last'.resp.msg = "already_reward"
                 /\ hist' = hist]_vars

C6_Witness ==
    /\ last.op = "scan" /\ last.resp.msg = "already_reward"
    /\ last.before.reward_available = 1
    /\ progress[last.user_id].last_scan_at = last.t2
    /\ last.t2 > last.before.last_scan_at

\* C7: redeem with rewardAvailable true sets stamps = 0 and
\* rewardAvailable = false in one update, reports 'redeemed', leaves
\* lastScanAt untouched (the cooldown is as before), and a following
\* getStatus returns stamps 0 and rewardAvailable false.
C7_Redeem ==
    [][\A u \in UserIds :
         (Did("redeem", u) /\ PreReward(u))
         => /\ progress' = [progress EXCEPT ![u].stamps = 0,
                                            ![u].reward_available = 0,
                                            ![u].updated_at = last'.t2]
            /\ users' = users
            /\ last'.resp.ok /\ last'.resp.msg = "redeemed"
            /\ \A t \in Times :
                  can_scan(Status(u, progress'[u]), t) = can_scan(Status(u, progress[u]), t)
            /\ LET g == get_status(DB', u, clock')
               IN  /\ g.st.stamps = 0 /\ g.st.reward_available = FALSE
                   /\ g.st.last_scan_at = PreLastScan(u)
                   /\ g.db = DB'
                   /\ last'.resp.status = g.st]_vars

C7_Witness ==
    /\ last.op = "redeem" /\ last.resp.msg = "redeemed"
    /\ last.before.reward_available = 1
    /\ progress[last.user_id].stamps = 0
    /\ progress[last.user_id].last_scan_at # NULL
    /\ ~can_scan(Status(last.user_id, progress[last.user_id]), clock).ok

\* C8: redeem with rewardAvailable false changes nothing (stamps,
\* rewardAvailable, lastScanAt, updatedAt) and answers 'nothing to redeem',
\* for every stamps value 0..4.
C8_RedeemNoop ==
    [][\A u \in UserIds :
         (Did("redeem", u) /\ ~PreReward(u))
         => /\ ~last'.resp.ok /\ last'.resp.msg = "nothing_to_redeem"
            /\ hist'[u].redeemed = hist[u].redeemed
            /\ u \in DOMAIN progress => progress' = progress /\ users' = users
            /\ u \notin DOMAIN progress =>
                  /\ progress'[u].stamps = 0
                  /\ progress'[u].reward_available = 0
                  /\ progress'[u].last_scan_at = NULL
            /\ last'.resp.status.stamps = PreStamps(u)
            /\ last'.resp.status.reward_available = FALSE
            /\ last'.resp.status.last_scan_at = PreLastScan(u)]_vars

C8_Witness ==
    /\ last.op = "redeem" /\ last.resp.msg = "nothing_to_redeem"
    /\ last.before.exists
    /\ last.before.stamps = TARGET_SCANS - 1
    /\ progress[last.user_id].stamps = TARGET_SCANS - 1
    /\ progress[last.user_id].updated_at = last.before.updated_at
    /\ clock > last.before.updated_at

\* C9: reset, from any prior state of the user, succeeds and leaves
\* stamps = 0, rewardAvailable = false and lastScanAt absent, so that the
\* next scan is accepted.
C9_Reset ==
    [][\A u \in UserIds :
         /\ Did("reset", u) =>
              /\ u \in DOMAIN progress' /\ u \in DOMAIN users'
              /\ progress'[u].stamps = 0
              /\ progress'[u].reward_available = 0
              /\ progress'[u].last_scan_at = NULL
              /\ progress'[u].updated_at = last'.t2
              /\ last'.resp.ok
              /\ \A t \in Times : can_scan(Status(u, progress'[u]), t).ok
         /\ (last.op = "reset" /\ last.user_id = u /\ Did("scan", u)) =>
              /\ last'.resp.ok
              /\ progress'[u].stamps = 1]_vars

C9_Witness ==
    /\ last.op = "reset"
    /\ last.before.reward_available = 1
    /\ last.before.last_scan_at # NULL
    /\ clock - last.before.last_scan_at < MIN_SECONDS_BETWEEN_SCANS
    /\ progress[last.user_id].stamps = 0
    /\ progress[last.user_id].last_scan_at = NULL

\* C10: when scan requests of one user run concurrently, no update is lost:
\* once they have all finished, stamps is the value before plus the number
\* of scans accepted as stamp-adding, capped at TARGET_SCANS.
\* (hist.added starts at the stamps the threads find and counts every scan
\* answered 'unlocked' or 'stamp recorded'.)
C10_NoLostUpdate ==
    (\A i \in Threads : thr[i].pc = "done" /\ thr[i].op = "scan")
    => progress[ConcUser].stamps =
          IF hist[ConcUser].added <= TARGET_SCANS THEN hist[ConcUser].added
          ELSE TARGET_SCANS

\* C11: redeem is an atomic read-modify-write unit: for a user with one
\* unlocked reward, among redeem requests that interleave with each other and
\* with scans, at most one reports 'redeemed'; the others report 'nothing to
\* redeem'.  (Under SpecConc the threads find at most one unlocked reward and
\* cannot add the TARGET_SCANS stamps of a second one.)
C11_RedeemOnce ==
    \A i \in Threads : \A j \in Threads :
        (/\ i # j
         /\ thr[i].pc = "done" /\ thr[i].op = "redeem"
         /\ thr[j].pc = "done" /\ thr[j].op = "redeem"
         /\ thr[i].resp.msg = "redeemed")
        => thr[j].resp.msg = "nothing_to_redeem"

\* C12: for any two accepted scans of one user with no reset between them, the
\* lastScanAt values they record differ by at least MIN_SECONDS_BETWEEN_SCANS,
\* for every interleaving of the scan requests.
C12_OneScanPerCooldown ==
    \A i \in Threads : \A j \in Threads :
        (/\ i # j
         /\ \A k \in Threads : thr[k].op # "reset"
         /\ thr[i].pc = "done" /\ thr[i].op = "scan" /\ thr[i].resp.ok
         /\ thr[j].pc = "done" /\ thr[j].op = "scan" /\ thr[j].resp.ok
         /\ thr[i].now <= thr[j].now)
        => thr[j].now - thr[i].now >= MIN_SECONDS_BETWEEN_SCANS

\* C13: with a non-decreasing clock, over scan, redeem and getStatus requests
\* (no reset) every write of lastScanAt stores a value >= the stored one, and
\* lastScanAt never goes from present back to absent.
C13_LastScanForward ==
    [][\A u \in UserIds :
         (/\ u \in DOMAIN progress
          /\ progress[u].last_scan_at # NULL
          /\ ~Did("reset", u))
         => /\ progress'[u].last_scan_at # NULL
            /\ progress'[u].last_scan_at >= progress[u].last_scan_at
            /\ clock' >= clock
            /\ progress'[u].last_scan_at <= clock']_vars

C13_Witness ==
    /\ last.op = "scan" /\ last.resp.ok
    /\ last.before.last_scan_at # NULL
    /\ progress[last.user_id].last_scan_at = last.before.last_scan_at + MIN_SECONDS_BETWEEN_SCANS + 1

\* C14: getStatus is an idempotent get-or-create: on an unknown user id it
\* creates the zeroed record and returns it; on a known id it changes nothing
\* in the store; two consecutive getStatus calls return the same status.
IsGetStatus(u) == Did("status", u) \/ Did("index", u)

ZeroStatus(u) == [user_id |-> u, stamps |-> 0, reward_available |-> FALSE, last_scan_at |-> NULL]

C14_GetOrCreate ==
    [][\A u \in UserIds :
         IsGetStatus(u) =>
            /\ u \in DOMAIN progress =>
                  /\ progress' = progress
                  /\ users' = users
                  /\ last'.resp.status = Status(u, progress[u])
            /\ u \notin DOMAIN progress =>
                  /\ DOMAIN progress' = DOMAIN progress \cup {u}
                  /\ DOMAIN users' = DOMAIN users \cup {u}
                  /\ progress'[u] = [stamps |-> 0, reward_available |-> 0,
                                     last_scan_at |-> NULL, updated_at |-> last'.t0]
                  /\ users'[u] = [created_at |-> last'.t0]
                  /\ last'.resp.status = ZeroStatus(u)
            /\ (last.op \in {"status", "index"} /\ last.user_id = u /\ u \in DOMAIN progress)
                  => last'.resp.status = last.resp.status
            /\ \A t \in Later(clock') :
                  LET g == get_status(DB', u, t)
                  IN  g.db = DB' /\ g.st = last'.resp.status]_vars

C14_Witness ==
    /\ last.op = "status"
    /\ last.before.exists
    /\ last.before.stamps = 3
    /\ last.t0 > last.before.updated_at
    /\ progress[last.user_id].updated_at = last.before.updated_at
    /\ last.resp.status.stamps = 3

\* C16: an accepted stamp-adding scan reports 'reward just unlocked' exactly
\* when its own increment took stamps to TARGET_SCANS, and otherwise 'stamp
\* recorded, N remaining' with N = TARGET_SCANS - (stamps it wrote),
\* 1 <= N <= TARGET_SCANS - 1; the status it returns is the one it wrote.
C16_ScanMessage ==
    [][\A u \in UserIds :
         (Did("scan", u) /\ last'.resp.ok /\ ~PreReward(u))
         => /\ last'.resp.msg \in {"unlocked", "stamp_recorded"}
            /\ last'.resp.msg = "unlocked" <=> PreStamps(u) + 1 = TARGET_SCANS
            /\ last'.resp.msg = "stamp_recorded" =>
                  /\ last'.resp.remaining = TARGET_SCANS - (PreStamps(u) + 1)
                  /\ last'.resp.remaining >= 1
                  /\ last'.resp.remaining <= TARGET_SCANS - 1
            /\ last'.resp.status = Status(u, progress'[u])
            /\ last'.resp.status.stamps = PreStamps(u) + 1
            /\ last'.resp.status.last_scan_at = last'.t2]_vars

C16_Witness ==
    /\ last.op = "scan" /\ last.resp.msg = "stamp_recorded"
    /\ last.resp.remaining = 1
    /\ last.resp.status.stamps = TARGET_SCANS - 1
    /\ last.before.stamps = TARGET_SCANS - 2

\* C19: rewards are never created out of nothing: with each request run to
\* completion, TARGET_SCANS x (redeems that reported 'redeemed') + stamps
\* <= (scans accepted as stamp-adding), with equality when no reset occurred.
CurStamps(u) == IF u \in DOMAIN progress THEN progress[u].stamps ELSE 0

C19_RewardsArePaidFor ==
    \A u \in UserIds :
        /\ TARGET_SCANS * hist[u].redeemed + CurStamps(u) <= hist[u].added
        /\ ~hist[u].wasReset =>
              TARGET_SCANS * hist[u].redeemed + CurStamps(u) = hist[u].added

C19_Witness ==
    /\ last.op = "redeem" /\ last.resp.msg = "redeemed"
    /\ hist[last.user_id] = [added |-> TARGET_SCANS, redeemed |-> 1, wasReset |-> FALSE]
    /\ progress[last.user_id].stamps = 0

\* C17: User and Progress records are 1:1 and never deleted: the ids with a
\* User row are the ids with a Progress row; every operation that references
\* a user id leaves it present in both; a present id stays present and its
\* creation timestamp never changes.
C17_OneToOne ==
    [][/\ DOMAIN users = DOMAIN progress
       /\ DOMAIN users' = DOMAIN progress'
       /\ DOMAIN users \subseteq DOMAIN users'
       /\ \A u \in DOMAIN users : users'[u] = users[u]
       /\ \A u \in IsoUsers :
             (last' # last /\ last'.user_id = u)
             => /\ u \in DOMAIN users' /\ u \in DOMAIN progress'
                /\ DOMAIN users' = DOMAIN users \cup {u}
                /\ u \notin DOMAIN users => users'[u].created_at = last'.t0]_vars

C17_Witness ==
    /\ DOMAIN users = IsoUsers
    /\ DOMAIN progress = IsoUsers
    /\ last.op = "qr" /\ last.user_id = "alice" /\ ~last.before.exists
    /\ users["alice"].created_at > users["demo"].created_at

\* C18: operations are isolated per user id: a request for user a never
\* changes the stamps, rewardAvailable, lastScanAt or updatedAt of another
\* user b, and a's cooldown never causes a scan of b to be rejected.
C18_Isolation ==
    [][\A a \in IsoUsers : \A b \in IsoUsers \ {a} :
         /\ (last' # last /\ last'.user_id = a)
            => /\ b \in DOMAIN progress => progress'[b] = progress[b]
               /\ b \notin DOMAIN progress => b \notin DOMAIN progress'
               /\ b \in DOMAIN users => users'[b] = users[b]
               /\ hist'[b] = hist[b]
         /\ Did("scan", b)
            => (last'.resp.ok <=>
                  \/ PreLastScan(b) = NULL
                  \/ last'.t1 - PreLastScan(b) >= MIN_SECONDS_BETWEEN_SCANS)]_vars

C18_Witness ==
    /\ last.op = "scan" /\ last.user_id = "alice" /\ last.resp.ok
    /\ last.before.exists /\ last.before.last_scan_at = NULL
    /\ "demo" \in DOMAIN progress
    /\ progress["demo"].reward_available = 1
    /\ progress["demo"].last_scan_at # NULL
    /\ last.t1 - progress["demo"].last_scan_at < MIN_SECONDS_BETWEEN_SCANS
    /\ last.t1 - progress["demo"].last_scan_at >= 0

\* C15: there is no terminal state and the accrual cycle repeats: if time
\* keeps advancing and scans keep being issued, rewardAvailable eventually
\* becomes true, from every reachable state; after a redeem from REWARD_READY
\* the user is in ACCRUING(0), and exactly TARGET_SCANS further accepted scans
\* make rewardAvailable true again.
RewardReady(u) == u \in DOMAIN progress /\ progress[u].reward_available = 1

\* rewardAvailable is true exactly when TARGET_SCANS scans have added a stamp
\* since the cycle began
CycleCount ==
    \A u \in DOMAIN progress :
        /\ progress[u].stamps = hist[u].added
        /\ RewardReady(u) <=> hist[u].added = TARGET_SCANS

\* leaving REWARD_READY leads to ACCRUING(0)
CycleRestart ==
    \A u \in UserIds :
        (RewardReady(u) /\ ~RewardReady(u)')
        => /\ u \in DOMAIN progress'
           /\ progress'[u].stamps = 0
           /\ hist'[u].added = 0

\* the claim as stated: whatever else is requested
C15_CycleRepeats ==
    /\ []CycleCount
    /\ [][CycleRestart]_vars
    /\ \A u \in UserIds : []<>RewardReady(u)

\* the claim as amended: provided reset requests eventually stop
C15_CycleRepeatsUnlessReset ==
    /\ []CycleCount
    /\ [][CycleRestart]_vars
    /\ \A u \in UserIds :
          []<><<L_Reset(u)>>_vars \/ []<>RewardReady(u)

C15_Witness ==
    /\ RewardReady("demo")
    /\ hist["demo"] = [added |-> TARGET_SCANS, redeemed |-> 1, wasReset |-> FALSE]
====
